---- MODULE Spec2Model ----
(***************************************************************************)
(* Model of src/src/algorithms/op_transform.py: TextOperation (an ordered  *)
(* list of retain/insert/delete structs with compose and transform) and    *)
(* OTVersionControl (history table, current_text, version).                *)
(*                                                                         *)
(* Reading of the source.  The control flow, the variable names, the       *)
(* comparisons and the order of the assignments are those of the Python    *)
(* text, including the exceptions Python raises (a subscript on None, a    *)
(* local read before it is bound, an attribute that was never assigned).   *)
(* The Arrow calls are taken by their names: ops.append appends a struct,  *)
(* history.filter keeps the matching rows in order, history.append adds a  *)
(* row, utf8_insert(s, pos, t) inserts t at index pos, utf8_slice(s, i, j) *)
(* is the slice s[i:j] with Python's index rules, the 'list'/'combine'     *)
(* aggregate concatenates the operation lists.  The 'pos' field of a       *)
(* struct is None everywhere in the source and is left out; a text of None *)
(* (retain) is the empty sequence.  Timestamps are left out.               *)
(***************************************************************************)
EXTENDS Integers, Sequences, FiniteSets, TLC

VARIABLES history, current_text, version, attrs, last, fn, calls, controllers

vars == <<history, current_text, version, attrs, last, fn, calls, controllers>>

(***************************************************************************)
(* Bounds                                                                  *)
(***************************************************************************)
MaxOps == 1          \* actions per submitted operation (controller runs)
MaxFnOps == 2        \* actions per operation (runs of the pure functions)
MaxRetain == 1       \* largest n of retain(n)
MaxText == 1         \* longest text of insert(text) / delete(text)
MaxVersion == 2      \* commits per run
MaxDoc == 2          \* longest input document (runs of the pure functions)

Chars == {"a", "b"}
Clients == {"c1", "c2"}

RECURSIVE SeqsUpTo(_, _)
SeqsUpTo(S, n) ==
  IF n = 0 THEN {<< >>}
  ELSE LET shorter == SeqsUpTo(S, n - 1)
       IN  shorter \cup {Append(s, x) : s \in {t \in shorter : Len(t) = n - 1}, x \in S}

Texts == SeqsUpTo(Chars, MaxText)
Docs == SeqsUpTo(Chars, MaxDoc)

(***************************************************************************)
(* TextOperation: the structs and the builder calls                        *)
(***************************************************************************)
None == [type |-> "None", text |-> << >>, length |-> 0]

\* retain(n) appends {'type': 'retain', 'text': None, 'length': n}
retain(ops, n) == Append(ops, [type |-> "retain", text |-> << >>, length |-> n])

\* insert(text) appends {'type': 'insert', 'text': text, 'length': len(text)}
insert(ops, text) == Append(ops, [type |-> "insert", text |-> text, length |-> Len(text)])

\* delete(text) appends {'type': 'delete', 'text': text, 'length': -len(text)}
delete(ops, text) == Append(ops, [type |-> "delete", text |-> text, length |-> 0 - Len(text)])

\* TextOperation(): self.ops is the empty struct array
NewOperation == << >>

\* the operations one builder call away from ops
BuilderCalls(ops) ==
  {retain(ops, n) : n \in 0..MaxRetain}
    \cup {insert(ops, t) : t \in Texts}
    \cup {delete(ops, t) : t \in Texts}

RECURSIVE Built(_)
Built(n) ==
  IF n = 0 THEN {NewOperation}
  ELSE LET shorter == Built(n - 1)
       IN  shorter \cup UNION {BuilderCalls(o) : o \in {p \in shorter : Len(p) = n - 1}}

\* the operations a client can build with at most MaxOps / MaxFnOps calls
Operations == Built(MaxOps)
FnOperations == Built(MaxFnOps)

(***************************************************************************)
(* Strings as sequences of characters                                      *)
(***************************************************************************)
Min(a, b) == IF a < b THEN a ELSE b
Max(a, b) == IF a > b THEN a ELSE b

\* Python index rule of a slice bound: negative counts from the end, clamped
SliceIndex(s, i) == IF i < 0 THEN Max(0, Len(s) + i) ELSE Min(i, Len(s))

\* pc.utf8_slice(s, start, stop)
utf8_slice(s, start, stop) == SubSeq(s, SliceIndex(s, start) + 1, SliceIndex(s, stop))

\* pc.utf8_slice(s, start): to the end of the string
utf8_slice_from(s, start) == SubSeq(s, SliceIndex(s, start) + 1, Len(s))

\* pc.utf8_insert(s, pos, content)
utf8_insert(s, pos, content) == utf8_slice(s, 0, pos) \o content \o utf8_slice_from(s, pos)

(***************************************************************************)
(* OTVersionControl._apply_vectorized                                      *)
(***************************************************************************)
RECURSIVE ApplyFrom(_, _, _, _)
ApplyFrom(result, pos, ops, i) ==
  IF i > Len(ops) THEN result
  ELSE LET op == ops[i]
       IN  IF op.type = "retain" THEN ApplyFrom(result, pos + op.length, ops, i + 1)
           ELSE IF op.type = "insert"
             THEN ApplyFrom(utf8_insert(result, pos, op.text), pos + op.length, ops, i + 1)
           ELSE IF op.type = "delete"
             THEN ApplyFrom(utf8_slice(result, 0, pos) \o utf8_slice_from(result, pos + op.length),
                            pos, ops, i + 1)
           ELSE ApplyFrom(result, pos, ops, i + 1)

\* the walk started on an empty result instead of on the text
apply_from_empty(text, ops) == ApplyFrom(<< >>, 0, ops, 1)

_apply_vectorized(text, ops) == ApplyFrom(text, 0, ops, 1)

(***************************************************************************)
(* TextOperation.transform: the while loop, one iteration per step         *)
(***************************************************************************)
\* locals at loop entry (lines 52-56); curr_her is a local that is unbound
\* until line 160 assigns it
TransformInit ==
  [our_idx |-> 0, their_idx |-> 0, curr_our |-> None, curr_their |-> None,
   curr_her |-> "unbound", transformed |-> << >>, status |-> "loop"]

\* the loop condition of line 63 (a struct dict is truthy, None is not)
TransformCond(self, other, s) ==
  \/ s.our_idx < Len(self)
  \/ s.their_idx < Len(other)
  \/ s.curr_our # None
  \/ s.curr_their # None

\* next_op(ops, idx), lines 58-61
next_op(ops, idx) ==
  IF idx < Len(ops) THEN [op |-> ops[idx + 1], idx |-> idx + 1]
  ELSE [op |-> None, idx |-> idx]

Raise(s, error) == [s EXCEPT !.status = error]

\* the else branch with both structs emitted and both left pending
other_cases_keep_pending(s, our, their) ==
  [s EXCEPT !.transformed = Append(Append(s.transformed, our), their),
            !.curr_her = "None"]

\* the else branch of lines 155-160: both structs are emitted, curr_our is
\* cleared and None is bound to curr_her; curr_their stays pending
OtherCases(s, our, their) ==
  [s EXCEPT !.transformed = Append(Append(s.transformed, our), their),
            !.curr_our = None,
            !.curr_her = "None"]

\* one iteration of the loop body, lines 64-160
TransformBody(self, other, s0) ==
  LET fo == IF s0.curr_our = None THEN next_op(self, s0.our_idx)
            ELSE [op |-> s0.curr_our, idx |-> s0.our_idx]
      ft == IF s0.curr_their = None THEN next_op(other, s0.their_idx)
            ELSE [op |-> s0.curr_their, idx |-> s0.their_idx]
      s == [s0 EXCEPT !.curr_our = fo.op, !.our_idx = fo.idx,
                      !.curr_their = ft.op, !.their_idx = ft.idx]
      our == s.curr_our
      their == s.curr_their
      our_len == our.length
      their_len == their.length
      min_len == Min(our_len, their_len)
  IN
  IF our = None THEN
    \* lines 69-73: pa.struct(curr_her) reads curr_her, not curr_their
    IF their # None
      THEN Raise(s, IF s.curr_her = "unbound" THEN "UnboundLocalError" ELSE "TypeError")
      ELSE s
  ELSE IF their = None THEN
    \* lines 74-77
    [s EXCEPT !.transformed = Append(s.transformed, our), !.curr_our = None]
  ELSE IF our.type = "retain" /\ their.type = "retain" THEN
    \* lines 85-100
    [s EXCEPT !.transformed = Append(s.transformed,
                                     [type |-> "retain", text |-> << >>, length |-> min_len]),
              !.curr_our = IF our_len > min_len
                             THEN [our EXCEPT !.length = our_len - min_len] ELSE None,
              !.curr_their = IF their_len > min_len
                               THEN [their EXCEPT !.length = their_len - min_len] ELSE None]
  ELSE IF our.type = "insert" /\ their.type = "retain" THEN
    \* lines 103-114
    [s EXCEPT !.transformed = Append(s.transformed,
                                     [type |-> "insert", text |-> our.text, length |-> our.length]),
              !.curr_our = None,
              !.curr_their = IF their_len > our_len
                               THEN [their EXCEPT !.length = their.length - our_len] ELSE None]
  ELSE IF our.type = "retain" /\ their.type = "insert" THEN
    \* lines 117-125: curr_their is None when line 125 subscripts it
    Raise([s EXCEPT !.transformed = Append(s.transformed,
                                     [type |-> "insert", text |-> their.text, length |-> their.length]),
                    !.curr_their = None],
          "TypeError")
  ELSE IF our.type = "delete" /\ their.type = "retain" THEN
    \* lines 128-139: curr_our is None when line 136 subscripts it
    Raise([s EXCEPT !.transformed = Append(s.transformed,
                                     [type |-> "delete", text |-> our.text, length |-> our.length]),
                    !.curr_our = None],
          "TypeError")
  ELSE IF our.type = "retain" /\ their.type = "delete" THEN
    \* lines 142-153: curr_their is None when line 150 subscripts it
    Raise([s EXCEPT !.transformed = Append(s.transformed,
                                     [type |-> "delete", text |-> their.text, length |-> their.length]),
                    !.curr_their = None],
          "TypeError")
  ELSE OtherCases(s, our, their)

\* one turn of the while statement: test, then body or exit
TransformStep(self, other, s) ==
  IF s.status # "loop" THEN s
  ELSE IF TransformCond(self, other, s) THEN TransformBody(self, other, s)
  ELSE [s EXCEPT !.status = "return"]

RECURSIVE TransformLoop(_, _, _)
TransformLoop(self, other, s) ==
  IF s.status # "loop" THEN s
  ELSE TransformLoop(self, other, TransformStep(self, other, s))

\* self.transform(other): the new TextOperation's ops, or the exception
transform(self, other) ==
  LET s == TransformLoop(self, other, TransformInit)
  IN  IF s.status = "return"
        THEN [ok |-> TRUE, ops |-> s.transformed, error |-> "none"]
        ELSE [ok |-> FALSE, ops |-> << >>, error |-> s.status]

(***************************************************************************)
(* TextOperation.compose and _optimize_operations                          *)
(***************************************************************************)
\* two adjacent structs of one type become one: texts joined, lengths summed
MergePair(x, y) == [type |-> x.type, text |-> x.text \o y.text, length |-> x.length + y.length]

\* "Merge adjacent operations of the same type" (run-length encoding on 'type')
RECURSIVE _optimize_operations(_)
_optimize_operations(ops) ==
  IF Len(ops) < 2 THEN ops
  ELSE LET rest == _optimize_operations(Tail(ops))
       IN  IF Head(ops).type = Head(rest).type
             THEN <<MergePair(Head(ops), Head(rest))>> \o Tail(rest)
             ELSE <<Head(ops)>> \o rest

\* self.compose(other): concat_arrays([self.ops, other.ops]), then the merge
compose(self, other) == _optimize_operations(self \o other)

(***************************************************************************)
(* OTVersionControl: state                                                 *)
(*   history       the rows of self.history, in table order                *)
(*   current_text  self.current_text                                       *)
(*   version       self.version                                            *)
(*   attrs         which of the attributes current_text and version exist  *)
(*                 on the object: __init__ assigns only self.history, the  *)
(*                 other two exist once the caller has assigned them       *)
(*   last          the outcome of the last call: the exception raised and  *)
(*                 the source line that raised it, or "ok"                 *)
(***************************************************************************)
NoCall == [call |-> "none", status |-> "none", line |-> 0]

\* the value an operation carries as operation.metadata; TextOperation never
\* assigns it, so it is present only when the caller has attached it
NoMetadata == [present |-> FALSE, base_version |-> 0]
Metadata == {NoMetadata} \cup {[present |-> TRUE, base_version |-> v] : v \in 0..MaxVersion}

NoFn == [kind |-> "none"]
NoCalls == << >>
NoControllers == << >>

\* OTVersionControl.__init__ (history is the empty table), followed by the
\* caller's assignments of current_text = "" and version = 0, if any
Init ==
  /\ history = << >>
  /\ attrs \in SUBSET {"current_text", "version"}
  /\ current_text = << >>
  /\ version = 0
  /\ last = NoCall
  /\ fn = NoFn
  /\ calls = NoCalls
  /\ controllers = NoControllers

\* the 'operation' column of the rows with version >= base_version (196-198)
server_ops(hist, base_version) ==
  LET rows == SelectSeq(hist, LAMBDA row : row.version >= base_version)
  IN  [i \in 1..Len(rows) |-> rows[i].operation]

\* lines 200-202: transformed_op = transformed_op.transform(sop) for each sop
RECURSIVE TransformFold(_, _, _)
TransformFold(transformed_op, sops, i) ==
  IF i > Len(sops) THEN [ok |-> TRUE, ops |-> transformed_op, error |-> "none"]
  ELSE LET t == transform(transformed_op, sops[i])
       IN  IF t.ok THEN TransformFold(t.ops, sops, i + 1) ELSE t

\* the row appended by lines 211-218
HistoryRow(client_id, v, ops) == [client_id |-> client_id, version |-> v, operation |-> ops]

\* the table made of the new row alone
replace_rows(hist, row) == <<row>>

\* self.history.append(record_batch), line 211: the rows, then the new row
append_row(hist, row) == Append(hist, row)

Raised(call, error, line) == [call |-> call, status |-> error, line |-> line]

\* OTVersionControl.apply_operation(client_id, operation)
apply_operation(client_id, operation, metadata) ==
  LET t == TransformFold(operation, server_ops(history, metadata.base_version), 1)
  IN
  /\ version < MaxVersion
  /\ Len(current_text) <= MaxDoc
  /\ UNCHANGED <<attrs, fn, calls, controllers>>
  /\ IF ~metadata.present THEN
       \* line 197: operation.metadata does not exist
       /\ last' = Raised("apply_operation", "AttributeError", 197)
       /\ UNCHANGED <<history, current_text, version>>
     ELSE IF ~t.ok THEN
       \* line 202: transform raised
       /\ last' = Raised("apply_operation", t.error, 202)
       /\ UNCHANGED <<history, current_text, version>>
     ELSE IF "current_text" \notin attrs THEN
       \* line 206: self.current_text does not exist
       /\ last' = Raised("apply_operation", "AttributeError", 206)
       /\ UNCHANGED <<history, current_text, version>>
     ELSE IF "version" \notin attrs THEN
       \* line 205 has assigned current_text; line 215 reads self.version
       /\ current_text' = _apply_vectorized(current_text, t.ops)
       /\ last' = Raised("apply_operation", "AttributeError", 215)
       /\ UNCHANGED <<history, version>>
     ELSE
       /\ current_text' = _apply_vectorized(current_text, t.ops)
       /\ history' = append_row(history, HistoryRow(client_id, version, t.ops))
       /\ version' = version + 1
       /\ last' = [call |-> "apply_operation", status |-> "ok", line |-> 219]

\* the 'list' aggregate in 'combine' mode: the operation lists joined in order
RECURSIVE CombineOperations(_, _)
CombineOperations(hist, i) ==
  IF i > Len(hist) THEN << >>
  ELSE hist[i].operation \o CombineOperations(hist, i + 1)

\* OTVersionControl.compress_history()
compress_history ==
  /\ UNCHANGED <<current_text, version, attrs, fn, calls, controllers>>
  /\ IF "version" \notin attrs THEN
       \* line 261: self.version does not exist
       /\ last' = Raised("compress_history", "AttributeError", 261)
       /\ UNCHANGED history
     ELSE
       /\ history' = <<HistoryRow("system", version, CombineOperations(history, 1))>>
       /\ last' = [call |-> "compress_history", status |-> "ok", line |-> 265]

\* OTVersionControl.get_state(): the text, or AttributeError
get_state ==
  IF "current_text" \in attrs THEN [ok |-> TRUE, text |-> current_text]
  ELSE [ok |-> FALSE, text |-> << >>]

\* stable sort of the rows by 'version'
RECURSIVE sort_by_version(_)
sort_by_version(rows) ==
  IF Len(rows) < 2 THEN rows
  ELSE LET sorted == sort_by_version(SubSeq(rows, 1, Len(rows) - 1))
           x == rows[Len(rows)]
           before == SelectSeq(sorted, LAMBDA r : r.version <= x.version)
           after == SelectSeq(sorted, LAMBDA r : r.version > x.version)
       IN  before \o <<x>> \o after

\* OTVersionControl.get_version_history()
get_version_history == sort_by_version(history)

Next ==
  \/ \E client_id \in Clients, operation \in Operations, metadata \in Metadata :
       apply_operation(client_id, operation, metadata)
  \/ compress_history

Spec == Init /\ [][Next]_vars

(***************************************************************************)
(* Runs of the pure functions: the inputs are drawn in the initial state,  *)
(* one call is made on them and its result is kept in fn                   *)
(***************************************************************************)
NoResult == [ok |-> FALSE, ops |-> << >>, error |-> "not called"]

FnInput(a, b, d) ==
  [kind |-> "input", a |-> a, b |-> b, d |-> d,
   ab |-> NoResult, ba |-> NoResult, composed |-> << >>, text |-> << >>,
   error |-> "not called", normalized |-> << >>, twice |-> << >>,
   call |-> "none", n |-> 0, built |-> << >>]

InitFn ==
  /\ history = << >>
  /\ attrs = {}
  /\ current_text = << >>
  /\ version = 0
  /\ last = NoCall
  /\ calls = NoCalls
  /\ controllers = NoControllers
  /\ \E a \in FnOperations, b \in FnOperations, d \in Docs : fn = FnInput(a, b, d)

\* a.transform(b) and b.transform(a)
FnTransform ==
  /\ fn.kind = "input"
  /\ fn' = [fn EXCEPT !.kind = "transform",
                      !.ab = transform(fn.a, fn.b),
                      !.ba = transform(fn.b, fn.a)]
  /\ UNCHANGED <<history, current_text, version, attrs, last, calls, controllers>>

\* a.compose(b); lines 45-48 compare no lengths and raise nothing
FnCompose ==
  /\ fn.kind = "input"
  /\ fn' = [fn EXCEPT !.kind = "compose", !.composed = compose(fn.a, fn.b),
                      !.error = "none"]
  /\ UNCHANGED <<history, current_text, version, attrs, last, calls, controllers>>

\* _apply_vectorized(d, a.ops); lines 221-237 compare neither the length of
\* the text nor the deleted characters and raise nothing
FnApply ==
  /\ fn.kind = "input"
  /\ fn' = [fn EXCEPT !.kind = "apply", !.text = _apply_vectorized(fn.d, fn.a),
                      !.error = "none"]
  /\ UNCHANGED <<history, current_text, version, attrs, last, calls, controllers>>

NextFn == FnTransform \/ FnCompose \/ FnApply

SpecFn == InitFn /\ [][NextFn]_vars

(***************************************************************************)
(* Runs of the functions of one operation: apply, the merge of adjacent    *)
(* actions, and one more builder call                                      *)
(***************************************************************************)
InitOp ==
  /\ history = << >>
  /\ attrs = {}
  /\ current_text = << >>
  /\ version = 0
  /\ last = NoCall
  /\ calls = NoCalls
  /\ controllers = NoControllers
  /\ \E a \in FnOperations, d \in Docs : fn = FnInput(a, NewOperation, d)

\* _optimize_operations(a.ops), and again on its result
FnNormalize ==
  /\ fn.kind = "input"
  /\ fn' = [fn EXCEPT !.kind = "normalize",
                      !.normalized = _optimize_operations(fn.a),
                      !.twice = _optimize_operations(_optimize_operations(fn.a))]
  /\ UNCHANGED <<history, current_text, version, attrs, last, calls, controllers>>

\* a.retain(n)
FnRetain(n) ==
  /\ fn.kind = "input"
  /\ fn' = [fn EXCEPT !.kind = "build", !.call = "retain", !.n = n,
                      !.built = retain(fn.a, n)]
  /\ UNCHANGED <<history, current_text, version, attrs, last, calls, controllers>>

\* a.insert(text)
FnInsert(text) ==
  /\ fn.kind = "input"
  /\ fn' = [fn EXCEPT !.kind = "build", !.call = "insert", !.n = Len(text),
                      !.built = insert(fn.a, text)]
  /\ UNCHANGED <<history, current_text, version, attrs, last, calls, controllers>>

\* a.delete(text)
FnDelete(text) ==
  /\ fn.kind = "input"
  /\ fn' = [fn EXCEPT !.kind = "build", !.call = "delete", !.n = Len(text),
                      !.built = delete(fn.a, text)]
  /\ UNCHANGED <<history, current_text, version, attrs, last, calls, controllers>>

NextOp ==
  \/ FnApply
  \/ FnNormalize
  \/ \E n \in 0..MaxRetain : FnRetain(n)
  \/ \E text \in Texts : FnInsert(text)
  \/ \E text \in Texts : FnDelete(text)

SpecOp == InitOp /\ [][NextOp]_vars

(***************************************************************************)
(* Concurrent callers.  apply_operation and compress_history take no lock, *)
(* so calls made from several threads interleave between their statements; *)
(* an attribute assignment reads, computes and then stores.  calls[t] is   *)
(* the frame of thread t's call: its position, arguments and locals, and    *)
(* arrival, the rank of the call among the calls entered.                  *)
(***************************************************************************)
Threads == {"t1", "t2"}
Compactor == "gc"

\* each thread serves the request of one client
ClientOf(t) == IF t = "t1" THEN "c1" ELSE "c2"

IdleFrame ==
  [pc |-> "idle", client_id |-> "none", operation |-> << >>, metadata |-> NoMetadata,
   server_ops |-> << >>, transformed_op |-> << >>, new_text |-> << >>,
   new_history |-> << >>, new_version |-> 0, error |-> "none", line |-> 0,
   arrival |-> 0]

\* how many calls of apply_operation have been entered so far
Arrived == Cardinality({t \in Threads : calls[t].pc # "idle"})

InitConc ==
  /\ history = << >>
  /\ attrs \in SUBSET {"current_text", "version"}
  /\ current_text = << >>
  /\ version = 0
  /\ last = NoCall
  /\ fn = NoFn
  /\ calls = [t \in Threads \cup {Compactor} |-> IdleFrame]
  /\ controllers = NoControllers

Goto(t, frame) == calls' = [calls EXCEPT ![t] = frame]

RaiseIn(t, error, line) ==
  Goto(t, [calls[t] EXCEPT !.pc = "raised", !.error = error, !.line = line])

\* thread t enters apply_operation(client_id, operation)
Call(t, operation, metadata) ==
  /\ calls[t].pc = "idle"
  /\ Goto(t, [calls[t] EXCEPT !.pc = "l196", !.client_id = ClientOf(t),
                              !.operation = operation, !.metadata = metadata,
                              !.arrival = Arrived + 1])
  /\ UNCHANGED <<history, current_text, version, attrs, last, fn, controllers>>

\* lines 196-198: the window is read from self.history
L196(t) ==
  /\ calls[t].pc = "l196"
  /\ IF ~calls[t].metadata.present
       THEN RaiseIn(t, "AttributeError", 197)
       ELSE Goto(t, [calls[t] EXCEPT !.pc = "l200",
                       !.server_ops = server_ops(history, calls[t].metadata.base_version)])
  /\ UNCHANGED <<history, current_text, version, attrs, last, fn, controllers>>

\* lines 200-202: the fold over the window read at line 196
L200(t) ==
  /\ calls[t].pc = "l200"
  /\ LET r == TransformFold(calls[t].operation, calls[t].server_ops, 1)
     IN  IF r.ok
           THEN Goto(t, [calls[t] EXCEPT !.pc = "l205", !.transformed_op = r.ops])
           ELSE RaiseIn(t, r.error, 202)
  /\ UNCHANGED <<history, current_text, version, attrs, last, fn, controllers>>

\* lines 205-208, right-hand side: self.current_text is read and edited
L205(t) ==
  /\ calls[t].pc = "l205"
  /\ IF "current_text" \notin attrs
       THEN RaiseIn(t, "AttributeError", 206)
       ELSE Goto(t, [calls[t] EXCEPT !.pc = "l205store",
                       !.new_text = _apply_vectorized(current_text, calls[t].transformed_op)])
  /\ UNCHANGED <<history, current_text, version, attrs, last, fn, controllers>>

\* line 205, the store to self.current_text
L205store(t) ==
  /\ calls[t].pc = "l205store"
  /\ current_text' = calls[t].new_text
  /\ Goto(t, [calls[t] EXCEPT !.pc = "l211"])
  /\ UNCHANGED <<history, version, attrs, last, fn, controllers>>

\* lines 211-218, right-hand side: self.history and self.version are read
L211(t) ==
  /\ calls[t].pc = "l211"
  /\ IF "version" \notin attrs
       THEN RaiseIn(t, "AttributeError", 215)
       ELSE Goto(t, [calls[t] EXCEPT !.pc = "l211store",
                       !.new_history = append_row(history,
                           HistoryRow(calls[t].client_id, version, calls[t].transformed_op))])
  /\ UNCHANGED <<history, current_text, version, attrs, last, fn, controllers>>

\* line 211, the store to self.history
L211store(t) ==
  /\ calls[t].pc = "l211store"
  /\ history' = calls[t].new_history
  /\ Goto(t, [calls[t] EXCEPT !.pc = "l219"])
  /\ UNCHANGED <<current_text, version, attrs, last, fn, controllers>>

\* line 219, self.version + 1
L219(t) ==
  /\ calls[t].pc = "l219"
  /\ Goto(t, [calls[t] EXCEPT !.pc = "l219store", !.new_version = version + 1])
  /\ UNCHANGED <<history, current_text, version, attrs, last, fn, controllers>>

\* line 219, the store to self.version; the call returns
L219store(t) ==
  /\ calls[t].pc = "l219store"
  /\ version' = calls[t].new_version
  /\ Goto(t, [calls[t] EXCEPT !.pc = "done"])
  /\ UNCHANGED <<history, current_text, attrs, last, fn, controllers>>

\* compress_history, lines 249-256: the operations are read and combined
L249 ==
  /\ calls[Compactor].pc = "idle"
  /\ Goto(Compactor, [calls[Compactor] EXCEPT !.pc = "l257",
                        !.transformed_op = CombineOperations(history, 1)])
  /\ UNCHANGED <<history, current_text, version, attrs, last, fn, controllers>>

\* compress_history, lines 257-265: self.version is read, self.history stored
L257 ==
  /\ calls[Compactor].pc = "l257"
  /\ IF "version" \notin attrs
       THEN RaiseIn(Compactor, "AttributeError", 261) /\ UNCHANGED history
       ELSE /\ history' = <<HistoryRow("system", version, calls[Compactor].transformed_op)>>
            /\ Goto(Compactor, [calls[Compactor] EXCEPT !.pc = "done"])
  /\ UNCHANGED <<current_text, version, attrs, last, fn, controllers>>

NextConc ==
  \/ \E t \in Threads, operation \in Operations, metadata \in Metadata :
       Call(t, operation, metadata)
  \/ \E t \in Threads : L196(t)
  \/ \E t \in Threads : L200(t)
  \/ \E t \in Threads : L205(t)
  \/ \E t \in Threads : L205store(t)
  \/ \E t \in Threads : L211(t)
  \/ \E t \in Threads : L211store(t)
  \/ \E t \in Threads : L219(t)
  \/ \E t \in Threads : L219store(t)
  \/ L249
  \/ L257

SpecConc == InitConc /\ [][NextConc]_vars

(***************************************************************************)
(* The walk of transform, one turn of the while statement per step.  The   *)
(* two operations are drawn in the initial state; fn.s holds the locals of *)
(* the call.  While the call runs, the loop takes its next turn.           *)
(***************************************************************************)
MaxWalkOps == 1      \* actions per operation (runs of the walk)
MaxWalkRetain == 2   \* largest n of retain(n) (runs of the walk)

RECURSIVE WalkBuilt(_)
WalkBuilt(n) ==
  IF n = 0 THEN {NewOperation}
  ELSE LET shorter == WalkBuilt(n - 1)
           longest == {p \in shorter : Len(p) = n - 1}
       IN  shorter \cup {retain(o, k) : o \in longest, k \in 0..MaxWalkRetain}
                   \cup {insert(o, t) : o \in longest, t \in Texts}
                   \cup {delete(o, t) : o \in longest, t \in Texts}

WalkOperations == WalkBuilt(MaxWalkOps)

InitWalk ==
  /\ history = << >>
  /\ attrs = {}
  /\ current_text = << >>
  /\ version = 0
  /\ last = NoCall
  /\ calls = NoCalls
  /\ controllers = NoControllers
  /\ \E a \in WalkOperations, b \in WalkOperations :
       fn = [kind |-> "walk", a |-> a, b |-> b, s |-> TransformInit]

\* the condition of line 63 holds: the body runs once (or raises)
WalkIteration ==
  /\ fn.s.status = "loop"
  /\ TransformCond(fn.a, fn.b, fn.s)
  /\ fn' = [fn EXCEPT !.s = TransformStep(fn.a, fn.b, fn.s)]
  /\ UNCHANGED <<history, current_text, version, attrs, last, calls, controllers>>

\* the condition of line 63 fails: the loop is left for line 163
WalkExit ==
  /\ fn.s.status = "loop"
  /\ ~TransformCond(fn.a, fn.b, fn.s)
  /\ fn' = [fn EXCEPT !.s = TransformStep(fn.a, fn.b, fn.s)]
  /\ UNCHANGED <<history, current_text, version, attrs, last, calls, controllers>>

NextWalk == WalkIteration \/ WalkExit

SpecWalk == InitWalk /\ [][NextWalk]_vars /\ WF_vars(NextWalk)

(***************************************************************************)
(* Several documents.  Each document has its own OTVersionControl object;  *)
(* controllers[d] holds the attributes of the object of document d and the *)
(* frame of the call in flight on it.  One caller works on each document,  *)
(* and the callers of different documents interleave between statements.   *)
(***************************************************************************)
Documents == {"d1", "d2"}

MaxDocVersion == 1   \* commits per document (runs of several documents)

\* the caller of each document
CallerOf(d) == IF d = "d1" THEN "c1" ELSE "c2"

\* what the callers submit: the empty operation or the insert of one
\* character, without metadata or with base version 0
DocOperations == {NewOperation} \cup {insert(NewOperation, <<ch>>) : ch \in Chars}
DocMetadata == {NoMetadata, [present |-> TRUE, base_version |-> 0]}

\* OTVersionControl() followed by the caller's assignments, if any
NewController(assigned) ==
  [history |-> << >>, current_text |-> << >>, version |-> 0, attrs |-> assigned,
   frame |-> IdleFrame]

InitDocs ==
  /\ history = << >>
  /\ attrs = {}
  /\ current_text = << >>
  /\ version = 0
  /\ last = NoCall
  /\ fn = NoFn
  /\ calls = NoCalls
  /\ \E assigned \in [Documents -> SUBSET {"current_text", "version"}] :
       controllers = [d \in Documents |-> NewController(assigned[d])]

\* the call on controller c has raised: the frame is left with the error
RaisedIn(c, error, line) ==
  [c EXCEPT !.frame = [IdleFrame EXCEPT !.error = error, !.line = line]]

\* controller c after the next statement of the call in flight on it
Statement(c) ==
  LET f == c.frame
  IN  IF f.pc = "l196" THEN
        \* lines 196-198
        IF ~f.metadata.present THEN RaisedIn(c, "AttributeError", 197)
        ELSE [c EXCEPT !.frame = [f EXCEPT !.pc = "l200",
                 !.server_ops = server_ops(c.history, f.metadata.base_version)]]
      ELSE IF f.pc = "l200" THEN
        \* lines 200-202
        LET r == TransformFold(f.operation, f.server_ops, 1)
        IN  IF r.ok THEN [c EXCEPT !.frame = [f EXCEPT !.pc = "l205", !.transformed_op = r.ops]]
            ELSE RaisedIn(c, r.error, 202)
      ELSE IF f.pc = "l205" THEN
        \* lines 205-208
        IF "current_text" \notin c.attrs THEN RaisedIn(c, "AttributeError", 206)
        ELSE [c EXCEPT !.current_text = _apply_vectorized(c.current_text, f.transformed_op),
                       !.frame = [f EXCEPT !.pc = "l211"]]
      ELSE IF f.pc = "l211" THEN
        \* lines 211-218
        IF "version" \notin c.attrs THEN RaisedIn(c, "AttributeError", 215)
        ELSE [c EXCEPT !.history = append_row(c.history,
                                              HistoryRow(f.client_id, c.version, f.transformed_op)),
                       !.frame = [f EXCEPT !.pc = "l219"]]
      ELSE
        \* line 219; the call returns
        [c EXCEPT !.version = c.version + 1, !.frame = IdleFrame]

\* controller c after compress_history()
Compressed(c) ==
  IF "version" \notin c.attrs THEN RaisedIn(c, "AttributeError", 261)
  ELSE [c EXCEPT !.history = <<HistoryRow("system", c.version, CombineOperations(c.history, 1))>>,
                 !.frame = IdleFrame]

\* every object reads and writes one shared set of attributes: the stores of
\* a method land in all the objects
store_shared(objects, d, c) ==
  [e \in Documents |-> [c EXCEPT !.frame = IF e = d THEN c.frame ELSE objects[e].frame]]

\* the stores of a method called on the object of document d: self.history,
\* self.current_text and self.version are attributes of that object alone
Store(objects, d, c) == [objects EXCEPT ![d] = c]

\* the caller of document d enters apply_operation(client_id, operation)
DocCall(d, operation, metadata) ==
  /\ controllers[d].frame.pc = "idle"
  /\ controllers[d].version < MaxDocVersion
  /\ Len(controllers[d].current_text) < MaxDocVersion
  /\ controllers' = Store(controllers, d,
       [controllers[d] EXCEPT !.frame = [IdleFrame EXCEPT !.pc = "l196",
          !.client_id = CallerOf(d), !.operation = operation, !.metadata = metadata]])
  /\ UNCHANGED <<history, current_text, version, attrs, last, fn, calls>>

\* the call in flight on document d executes its next statement
DocStatement(d) ==
  /\ controllers[d].frame.pc # "idle"
  /\ controllers' = Store(controllers, d, Statement(controllers[d]))
  /\ UNCHANGED <<history, current_text, version, attrs, last, fn, calls>>

\* the caller of document d calls compress_history()
DocCompress(d) ==
  /\ controllers[d].frame.pc = "idle"
  /\ controllers' = Store(controllers, d, Compressed(controllers[d]))
  /\ UNCHANGED <<history, current_text, version, attrs, last, fn, calls>>

NextDocs ==
  \/ \E d \in Documents, operation \in DocOperations, metadata \in DocMetadata :
       DocCall(d, operation, metadata)
  \/ \E d \in Documents : DocStatement(d)
  \/ \E d \in Documents : DocCompress(d)

SpecDocs == InitDocs /\ [][NextDocs]_vars

(***************************************************************************)
(* Notions of the specification used to state the properties               *)
(***************************************************************************)
\* characters an action consumes from / produces into the document
Consumed(x) == IF x.type = "retain" THEN x.length
               ELSE IF x.type = "delete" THEN Len(x.text) ELSE 0
Produced(x) == IF x.type = "retain" THEN x.length
               ELSE IF x.type = "insert" THEN Len(x.text) ELSE 0

RECURSIVE baseLength(_)
baseLength(ops) == IF ops = << >> THEN 0 ELSE Consumed(Head(ops)) + baseLength(Tail(ops))

RECURSIVE targetLength(_)
targetLength(ops) == IF ops = << >> THEN 0 ELSE Produced(Head(ops)) + targetLength(Tail(ops))

\* no zero-length action (what retain(n>0), insert(non-empty), delete(n>0) build)
Canonical(ops) == \A i \in 1..Len(ops) : Consumed(ops[i]) + Produced(ops[i]) > 0

\* a delete names the characters that stand at its offset in d
RECURSIVE DeletesMatch(_, _, _)
DeletesMatch(ops, d, cursor) ==
  IF ops = << >> THEN TRUE
  ELSE LET x == Head(ops)
       IN  /\ x.type = "delete" => SubSeq(d, cursor + 1, cursor + Len(x.text)) = x.text
           /\ DeletesMatch(Tail(ops), d, cursor + Consumed(x))

\* op is an edit of document d
Fits(ops, d) == Canonical(ops) /\ baseLength(ops) = Len(d) /\ DeletesMatch(ops, d, 0)

\* the caller has assigned both attributes that __init__ leaves out
Initialised == attrs = {"current_text", "version"}

\* no row written by compress_history is in the log
NotCompacted == \A i \in 1..Len(history) : history[i].client_id # "system"

\* the text obtained by applying the operations of rows i.. in order to text
RECURSIVE Replay(_, _, _)
Replay(rows, i, text) ==
  IF i > Len(rows) THEN text
  ELSE Replay(rows, i + 1, _apply_vectorized(text, rows[i].operation))

\* a client replica at local_version applies the logged operation whose
\* version is local_version + 1, and so on while there is one
RECURSIVE Replica(_, _, _)
Replica(rows, local_version, text) ==
  LET due == SelectSeq(rows, LAMBDA r : r.version = local_version + 1)
  IN  IF due = << >> THEN [version |-> local_version, text |-> text]
      ELSE Replica(rows, local_version + 1, _apply_vectorized(text, due[1].operation))

\* the operations of the rows whose version is strictly greater than b
OpsAfter(hist, b) ==
  LET rows == SelectSeq(hist, LAMBDA row : row.version > b)
  IN  [i \in 1..Len(rows) |-> rows[i].operation]

\* thread t has read its window and has not yet stored its appended row
InSection(t) == calls[t].pc \in {"l200", "l205", "l205store", "l211", "l211store"}

(***************************************************************************)
(* Properties                                                              *)
(***************************************************************************)

\* C1 (SpecFn): convergence of transform.  For a document d and operations
\* a, b that are edits of d, a.transform(b) and b.transform(a) both return
\* an operation, and a' applied after b gives the text b' applied after a
\* gives.
C1_TransformConverges ==
  (fn.kind = "transform" /\ Fits(fn.a, fn.d) /\ Fits(fn.b, fn.d)) =>
    /\ fn.ab.ok
    /\ fn.ba.ok
    /\ _apply_vectorized(_apply_vectorized(fn.d, fn.b), fn.ab.ops)
         = _apply_vectorized(_apply_vectorized(fn.d, fn.a), fn.ba.ops)

\* C2 (Spec): replica convergence.  On a controller that was initialised and
\* not compacted, a replica that starts from the empty document at version 0
\* and applies the logged operation with version k when its local version is
\* k - 1 arrives at the server's version holding the server's snapshot.
C2_ReplicaConverges ==
  (Initialised /\ NotCompacted) =>
    Replica(get_version_history, 0, << >>) = [version |-> version, text |-> current_text]

\* C3 (SpecFn): compose correctness.  For operations a, c without zero-length
\* actions, with baseLength(a) = len(d) and targetLength(a) = baseLength(c),
\* applying a.compose(c) to d gives the text of applying a and then c.
C3_ComposeCorrect ==
  (/\ fn.kind = "compose"
   /\ Canonical(fn.a) /\ Canonical(fn.b)
   /\ baseLength(fn.a) = Len(fn.d)
   /\ targetLength(fn.a) = baseLength(fn.b)) =>
    _apply_vectorized(fn.d, fn.composed)
      = _apply_vectorized(_apply_vectorized(fn.d, fn.a), fn.b)

\* C4 (Spec): atomic rejection.  A call of apply_operation that raises leaves
\* the history, the version and the snapshot as they were before the call.
C4_AtomicRejection ==
  [][(last'.call = "apply_operation" /\ last'.status # "ok")
       => (history' = history /\ version' = version /\ current_text' = current_text)]_vars

\* C5 (Spec): version contiguity.  On an initialised controller that was not
\* compacted, the versions of the rows are 1, 2, ..., n in log order and the
\* current version is n.
C5_VersionContiguity ==
  (Initialised /\ NotCompacted) =>
    /\ \A i \in 1..Len(history) : history[i].version = i
    /\ version = Len(history)

\* C6 (Spec): snapshot/log agreement.  In every state of an initialised
\* controller, get_state returns the text obtained by applying the logged
\* operations in version order to the empty document.
C6_SnapshotIsReplay ==
  Initialised =>
    /\ get_state.ok
    /\ get_state.text = Replay(get_version_history, 1, << >>)

\* C7 (Spec): history replay equivalence.  Replaying the log that a call of
\* compress_history leaves gives the text that replaying the log before the
\* call gives.
C7_CompressKeepsReplay ==
  [][(last'.call = "compress_history" /\ last'.status = "ok" /\ history' # history)
       => Replay(history', 1, << >>) = Replay(history, 1, << >>)]_vars

\* C8 (Spec): reconciliation window.  On an initialised controller that was
\* not compacted, the operations an incoming operation with base version b is
\* transformed against are those of the rows with version strictly greater
\* than b, in log order; the row with version b is not among them.
C8_WindowIsStrictlyAfterBase ==
  (Initialised /\ NotCompacted) =>
    \A b \in 0..MaxVersion : server_ops(history, b) = OpsAfter(history, b)

\* C9 (Spec): tie-break by commit precedence.  When the log holds the single
\* committed operation insert(x) and a client submits insert(y) against base
\* version 0, the document becomes x followed by y.
C9_EarlierCommitFirst ==
  [][\A x \in Chars, y \in Chars, c \in Clients :
       (/\ Initialised
        /\ Len(history) = 1
        /\ history[1].operation = insert(NewOperation, <<x>>)
        /\ current_text = <<x>>
        /\ apply_operation(c, insert(NewOperation, <<y>>), [present |-> TRUE, base_version |-> 0]))
       => current_text' = <<x, y>>]_vars

\* C10 (SpecConc): mutual exclusion per document.  On an initialised
\* controller, while a call has read its window and not yet stored its row,
\* no other call of apply_operation stores to the snapshot or to the history.
C10_NoCommitInsideSection ==
  [][\A t \in Threads :
       (Initialised /\ InSection(t) /\ calls'[t] = calls[t] /\ \E u \in Threads \ {t} : calls'[u] # calls[u])
       => (history' = history /\ current_text' = current_text)]_vars

\* the version of the row that thread t's call appended
RowVersion(t) == calls[t].new_history[Len(calls[t].new_history)].version

\* C11 (SpecConc): arrival-order versioning.  On an initialised controller,
\* when two calls have both committed, the call that was entered first has
\* the smaller version.
C11_ArrivalOrderVersions ==
  \A t \in Threads, u \in Threads :
    (/\ Initialised
     /\ calls[t].pc = "done" /\ calls[u].pc = "done"
     /\ calls[t].arrival < calls[u].arrival)
    => RowVersion(t) < RowVersion(u)

\* C12 (SpecOp): apply rejects a document of the wrong length.  When
\* len(d) differs from baseLength(op), applying op to d fails with
\* LengthMismatch.
C12_ApplyRejectsWrongLength ==
  (fn.kind = "apply" /\ Len(fn.d) # baseLength(fn.a)) => fn.error = "LengthMismatch"

\* C13 (SpecOp): apply checks deleted content.  When op fits the length of d
\* and one of its deletes names characters other than those at its offset in
\* d, applying op to d fails with DeleteContentMismatch.
C13_ApplyChecksDeletedText ==
  (/\ fn.kind = "apply"
   /\ Canonical(fn.a)
   /\ baseLength(fn.a) = Len(fn.d)
   /\ ~DeletesMatch(fn.a, fn.d, 0)) => fn.error = "DeleteContentMismatch"

\* C14 (SpecFn): compose rejects mismatched lengths.  When targetLength(a)
\* differs from baseLength(b), a.compose(b) fails with LengthMismatch.
C14_ComposeRejectsMismatch ==
  (fn.kind = "compose" /\ targetLength(fn.a) # baseLength(fn.b))
    => fn.error = "LengthMismatch"

\* C15 (Spec): a future base version is rejected.  On an initialised
\* controller, a call of apply_operation whose base version is greater than
\* the current version fails with FutureBaseVersion and commits nothing.
C15_FutureBaseRejected ==
  [][\A c \in Clients, o \in Operations, m \in Metadata :
       (/\ Initialised
        /\ m.present
        /\ m.base_version > version
        /\ apply_operation(c, o, m))
       => (last'.status = "FutureBaseVersion" /\ history' = history)]_vars

\* C16 (Spec): a stale base version is rejected.  On an initialised
\* controller whose log was compacted, a call of apply_operation whose base
\* version precedes the earliest version retained fails with
\* StaleBaseVersion.
C16_StaleBaseRejected ==
  [][\A c \in Clients, o \in Operations, m \in Metadata :
       (/\ Initialised
        /\ history # << >>
        /\ history[1].client_id = "system"
        /\ m.present
        /\ m.base_version < history[1].version
        /\ apply_operation(c, o, m))
       => last'.status = "StaleBaseVersion"]_vars

\* C17 (SpecFn): conflicts are never errors.  For operations a, b without
\* zero-length actions and with equal baseLength, a.transform(b) and
\* b.transform(a) return without raising.
C17_TransformNeverRaises ==
  (/\ fn.kind = "transform"
   /\ Canonical(fn.a) /\ Canonical(fn.b)
   /\ baseLength(fn.a) = baseLength(fn.b)) => (fn.ab.ok /\ fn.ba.ok)

\* C18 (SpecOp): identity of the empty edit.  Applying the operation that
\* consists of the single action retain(len(d)) to d returns d.
C18_RetainAllIsIdentity ==
  (fn.kind = "apply" /\ fn.a = retain(NewOperation, Len(fn.d)))
    => (fn.error = "none" /\ fn.text = fn.d)

\* a non-empty document to which retain(len(d)) has been applied
C18_Witness ==
  /\ fn.kind = "apply"
  /\ fn.d # << >>
  /\ fn.a = retain(NewOperation, Len(fn.d))
  /\ fn.text = fn.d

\* C19 (SpecOp): normalization stability.  For every operation op, merging
\* the merged operation again changes nothing, and the merged operation has
\* no zero-length action and no two adjacent actions of one kind.
C19_NormalizeStable ==
  fn.kind = "normalize" =>
    /\ fn.twice = fn.normalized
    /\ Canonical(fn.normalized)
    /\ \A i \in 1..(Len(fn.normalized) - 1) :
         fn.normalized[i].type # fn.normalized[i + 1].type

\* C20 (SpecOp): zero-length builder calls are no-ops.  retain(0),
\* insert("") and delete("") leave the action sequence of the operation as
\* it was.
C20_ZeroLengthCallsIgnored ==
  (fn.kind = "build" /\ fn.n = 0) => fn.built = fn.a

\* the rows of the window of thread t's call: those the filter of line 196
\* selected for the base version the call carries
WindowRows(hist, t) ==
  SelectSeq(hist, LAMBDA row : row.version >= calls[t].metadata.base_version)

\* C21 (SpecConc): compaction respects an in-flight window.  On an
\* initialised controller, when compress_history stores its table while a
\* call of apply_operation has read its window and not yet stored its row,
\* every row of that window is still in the history, unchanged.
C21_CompactionKeepsWindow ==
  [][\A t \in Threads :
       (/\ Initialised
        /\ InSection(t)
        /\ calls[Compactor].pc = "l257"
        /\ calls'[Compactor].pc = "done")
       => \A i \in 1..Len(WindowRows(history, t)) :
            \E j \in 1..Len(history') : history'[j] = WindowRows(history, t)[i]]_vars

\* C22 (Spec): the commit step.  On an initialised controller, a call of
\* apply_operation that returns appends exactly one row, whose version is the
\* version before the call plus one and whose client is the caller, and
\* advances the version by one.
C22_CommitAtNextVersion ==
  [][\A c \in Clients, o \in Operations, m \in Metadata :
       (/\ Initialised
        /\ apply_operation(c, o, m)
        /\ last'.status = "ok")
       => /\ Len(history') = Len(history) + 1
          /\ SubSeq(history', 1, Len(history)) = history
          /\ history'[Len(history')].client_id = c
          /\ history'[Len(history')].version = version + 1
          /\ version' = version + 1]_vars

\* the attributes of the object of document d
ObjectState(objects, d) ==
  <<objects[d].history, objects[d].version, objects[d].current_text>>

\* C23 (SpecDocs): documents are independent.  A statement of a call of
\* apply_operation or compress_history on the controller of one document
\* leaves the history, the version and the snapshot of the controller of
\* every other document as they were.
C23_DocumentsIndependent ==
  [][\A d \in Documents :
       controllers'[d] # controllers[d]
       => \A e \in Documents \ {d} :
            ObjectState(controllers', e) = ObjectState(controllers, e)]_vars

\* both documents have committed, to different texts
C23_Witness ==
  /\ controllers # NoControllers
  /\ controllers["d1"].history # << >>
  /\ controllers["d2"].history # << >>
  /\ controllers["d1"].current_text # controllers["d2"].current_text

\* the walk of the specification over document d from source cursor: a
\* retain copies its characters, an insert adds its text, a delete skips
RECURSIVE Walk(_, _, _)
Walk(ops, d, cursor) ==
  IF ops = << >> THEN << >>
  ELSE LET x == Head(ops)
           copied == IF x.type = "retain" THEN SubSeq(d, cursor + 1, cursor + x.length)
                     ELSE IF x.type = "insert" THEN x.text ELSE << >>
       IN  copied \o Walk(Tail(ops), d, cursor + Consumed(x))

\* C24 (SpecOp): apply walk semantics.  For an operation op and a document d
\* with len(d) = baseLength(op), applying op to d returns the text of the
\* walk (retain copies, insert adds, delete skips), whose length is
\* targetLength(op).
C24_ApplyIsTheWalk ==
  (fn.kind = "apply" /\ Len(fn.d) = baseLength(fn.a)) =>
    /\ fn.text = Walk(fn.a, fn.d, 0)
    /\ Len(fn.text) = targetLength(fn.a)

\* C25 (Spec): committed operations fit their document.  On an initialised
\* controller that was not compacted, the baseLength of the operation of
\* every row equals the length of the document that replaying the rows
\* before it gives.
C25_CommittedOperationsFit ==
  (Initialised /\ NotCompacted) =>
    \A i \in 1..Len(history) :
      baseLength(history[i].operation)
        = Len(Replay(SubSeq(history, 1, i - 1), 1, << >>))

\* C26 (Spec): the history is append-only under apply_operation.  After a
\* call of apply_operation, whether it returns or raises, every row that was
\* in the history before the call is there at the same position with the
\* same version, client and operation.
C26_ApplyOnlyAppends ==
  [][last'.call = "apply_operation"
       => /\ Len(history') >= Len(history)
          /\ SubSeq(history', 1, Len(history)) = history]_vars

\* a call has returned on a history that already held a row
C26_Witness ==
  /\ last.call = "apply_operation"
  /\ last.status = "ok"
  /\ Len(history) >= 2

\* the left fold of compose over the operations of rows i.. onto acc
RECURSIVE ComposeFold(_, _, _)
ComposeFold(rows, i, acc) ==
  IF i > Len(rows) THEN acc
  ELSE ComposeFold(rows, i + 1, compose(acc, rows[i].operation))

\* C27 (Spec): what compress_history replaces.  compress_history takes no
\* checkpoint, so the checkpoint is the current version and every row is at
\* or below it.  On an initialised controller that was not compacted and has
\* rows, a call that returns leaves exactly one row, of client "system",
\* whose operation is the left fold of compose over the replaced operations
\* in version order, and leaves the version and the snapshot as they were.
C27_CompressFoldsCompose ==
  [][(/\ Initialised /\ NotCompacted /\ history # << >>
      /\ last'.call = "compress_history" /\ last'.status = "ok"
      /\ history' # history)
       => /\ Len(history') = 1
          /\ history'[1].client_id = "system"
          /\ history'[1].operation
               = ComposeFold(get_version_history, 2, get_version_history[1].operation)
          /\ version' = version
          /\ current_text' = current_text]_vars

\* no action of ops deletes a character
DeletesNothing(ops) == \A i \in 1..Len(ops) : ops[i].type = "delete" => ops[i].text = << >>

\* C28 (SpecFn): overlapping deletes cancel.  When a and b both consist of
\* the delete of the whole of a non-empty document d, a.transform(b) and
\* b.transform(a) return operations that delete nothing.
C28_OverlappingDeletesCancel ==
  (/\ fn.kind = "transform"
   /\ fn.d # << >>
   /\ fn.a = delete(NewOperation, fn.d)
   /\ fn.b = fn.a) =>
    /\ fn.ab.ok /\ DeletesNothing(fn.ab.ops)
    /\ fn.ba.ok /\ DeletesNothing(fn.ba.ops)

\* C29 (SpecFn): length compatibility of the results of transform.  For
\* operations a, b with equal baseLength, a' = a.transform(b) and
\* b' = b.transform(a) are returned, baseLength(a') = targetLength(b),
\* baseLength(b') = targetLength(a) and targetLength(a') = targetLength(b').
C29_TransformLengthsAgree ==
  (fn.kind = "transform" /\ baseLength(fn.a) = baseLength(fn.b)) =>
    /\ fn.ab.ok
    /\ fn.ba.ok
    /\ baseLength(fn.ab.ops) = targetLength(fn.b)
    /\ baseLength(fn.ba.ops) = targetLength(fn.a)
    /\ targetLength(fn.ab.ops) = targetLength(fn.ba.ops)

\* the actions of the two streams that the walk has not yet consumed
Unconsumed(a, b, s) ==
  (Len(a) - s.our_idx) + (Len(b) - s.their_idx)
    + (IF s.curr_our = None THEN 0 ELSE 1) + (IF s.curr_their = None THEN 0 ELSE 1)

\* what is left of the pending actions
PendingLength(s) == s.curr_our.length + s.curr_their.length

\* C30 (SpecWalk): transform terminates.  Every turn of the loop that does
\* not leave it consumes a pending action or reduces the remaining length of
\* one, and every walk leaves the loop, by the exit of line 63 or by an
\* exception.
C30_TransformTerminates ==
  /\ [][(fn.s.status = "loop" /\ fn'.s.status = "loop")
          => \/ Unconsumed(fn.a, fn.b, fn'.s) < Unconsumed(fn.a, fn.b, fn.s)
             \/ /\ Unconsumed(fn.a, fn.b, fn'.s) = Unconsumed(fn.a, fn.b, fn.s)
                /\ PendingLength(fn'.s) < PendingLength(fn.s)]_vars
  /\ <>(fn.s.status # "loop")

\* a walk that carried the rest of a retain into a second turn has returned
C30_Witness ==
  /\ fn.kind = "walk"
  /\ fn.s.status = "return"
  /\ fn.a # << >> /\ fn.b # << >>
  /\ Len(fn.s.transformed) >= 2

====
